---- MODULE Spec2Model ----
(***************************************************************************)
(* A model of smartpy_arc/poly_splitting.py: the binary search bisector    *)
(* split_poly, the recursive partitioner recursive_split and the batch     *)
(* entry point split_equal_area.                                           *)
(*                                                                         *)
(* Geometry.  A polygon is a finite set of pairwise disjoint axis-aligned  *)
(* rectangles <<x0, y0, x1, y1>> (a rectilinear, possibly multi-part       *)
(* polygon); this class is closed under clipping against an extent.        *)
(* Coordinates are integers: one unit is the spacing of the representable  *)
(* coordinates around the polygon, so that (dMin + dMax) / 2 is rounded    *)
(* the way IEEE-754 rounds it (to nearest, ties to even) when the exact    *)
(* midpoint is not representable.  Areas and targets are exact rationals.  *)
(***************************************************************************)
EXTENDS Integers, Sequences, FiniteSets, TLC

(***************************************************************************)
(* Bounds of the model.                                                    *)
(***************************************************************************)
MaxParts == 5
MaxIters == 12
MaxRows == 2
MaxNest == 3
MaxName == 2

(***************************************************************************)
(* Program constants.  A tolerance is a number of 1/TolDen: the default    *)
(* search_tolerance 0.005 is DefaultTol / TolDen.                          *)
(***************************************************************************)
TolDen == 200
DefaultTol == 1
Pad == 100
RightPadX == 1
SqUnitsPerAcre == 4

Max(a, b) == IF a >= b THEN a ELSE b
Min(a, b) == IF a <= b THEN a ELSE b
Abs(a) == IF a >= 0 THEN a ELSE 0 - a

(***************************************************************************)
(* Polygon values.  NoneVal is Python's None; Poly({}) is an empty         *)
(* geometry, a real object of area 0.                                      *)
(***************************************************************************)
NoneVal == [null |-> TRUE, rects |-> {}]
Poly(rs) == [null |-> FALSE, rects |-> rs]

RectArea(r) == (r[3] - r[1]) * (r[4] - r[2])

RECURSIVE SumArea(_)
SumArea(rs) ==
  IF rs = {} THEN 0
  ELSE LET r == CHOOSE q \in rs : TRUE
       IN RectArea(r) + SumArea(rs \ {r})

\* poly.area
area(p) == SumArea(p.rects)

SetMin(S) == CHOOSE x \in S : \A y \in S : x <= y
SetMax(S) == CHOOSE x \in S : \A y \in S : x >= y

\* poly.extent: the minimum bounding rectangle; width and height as arcpy gives them.
\* An empty geometry has an extent of NaNs: w > h and dMin < dMax are then both
\* false, which the degenerate extent at the origin gives as well.
extent(p) ==
  IF p.rects = {}
  THEN [XMin |-> 0, YMin |-> 0, XMax |-> 0, YMax |-> 0, width |-> 0, height |-> 0]
  ELSE
  LET x0 == SetMin({r[1] : r \in p.rects})
      y0 == SetMin({r[2] : r \in p.rects})
      x1 == SetMax({r[3] : r \in p.rects})
      y1 == SetMax({r[4] : r \in p.rects})
  IN [XMin |-> x0, YMin |-> y0, XMax |-> x1, YMax |-> y1,
      width |-> x1 - x0, height |-> y1 - y0]

ClipRect(r, e) ==
  <<Max(r[1], e[1]), Max(r[2], e[2]), Min(r[3], e[3]), Min(r[4], e[4])>>

Intersection(p, e) ==
  {c \in {ClipRect(r, e) : r \in p.rects} : c[1] < c[3] /\ c[2] < c[4]}

(***************************************************************************)
(* poly.clip(extent): the intersection of the polygon with the extent.     *)
(* When nothing of positive area is left arcpy hands back either None or   *)
(* an empty geometry; split_poly itself allows for None (line 66), so      *)
(* both outcomes are kept.                                                 *)
(***************************************************************************)
clip(p, e) ==
  IF Intersection(p, e) = {} THEN {NoneVal, Poly({})}
  ELSE {Poly(Intersection(p, e))}

\* arcpy.Extent(...) of the left (lower) side of the split at dMid
left_splitter(mbr, is_horiz, dMid) ==
  IF is_horiz
  THEN <<mbr.XMin - Pad, mbr.YMin - Pad, dMid, mbr.YMax + Pad>>
  ELSE <<mbr.XMin - Pad, mbr.YMin - Pad, mbr.XMax + Pad, dMid>>

right_splitter_gap(mbr, is_horiz, dMid) ==
  IF is_horiz
  THEN <<dMid + 1, mbr.YMin - Pad, mbr.XMax + RightPadX, mbr.YMax + Pad>>
  ELSE <<mbr.XMin - Pad, dMid + 1, mbr.XMax + Pad, mbr.YMax + Pad>>

\* arcpy.Extent(...) of the right (upper) side of the split at dMid
right_splitter(mbr, is_horiz, dMid) ==
  IF is_horiz
  THEN <<dMid, mbr.YMin - Pad, mbr.XMax + RightPadX, mbr.YMax + Pad>>
  ELSE <<mbr.XMin - Pad, dMid, mbr.XMax + Pad, mbr.YMax + Pad>>

\* w > h: search over X, otherwise over Y
IsHoriz_ge(mbr) == mbr.width >= mbr.height

IsHoriz(mbr) == mbr.width > mbr.height

\* dMid = (dMin + dMax) / 2 in double precision: ties go to the even neighbour
MidPoint(lo, hi) ==
  LET s == lo + hi
      f == s \div 2
  IN IF s % 2 = 0 THEN f
     ELSE IF f % 2 = 0 THEN f ELSE f + 1

(***************************************************************************)
(* A target area is a rational <<tn, td>> with td > 0.                     *)
(***************************************************************************)
NoSplit_lt(poly, tgt) == poly.null \/ area(poly) * tgt[2] < tgt[1]

\* poly is None or poly.area <= target_area
NoSplit(poly, tgt) == poly.null \/ area(poly) * tgt[2] <= tgt[1]

\* math.fabs(1 - (left_area / target_area)) <= search_tolerance
\* (the first conjunct follows from the second; it keeps the product small)
Converged_ge(left_area, tgt, search_tolerance) ==
  Abs(tgt[1] - left_area * tgt[2]) * TolDen >= search_tolerance * Abs(tgt[1])

Converged(left_area, tgt, search_tolerance) ==
  LET d == Abs(tgt[1] - left_area * tgt[2])
  IN /\ d <= search_tolerance * Abs(tgt[1])
     /\ d * TolDen <= search_tolerance * Abs(tgt[1])

TooLarge_flipped(left_area, tgt) == left_area * tgt[2] < tgt[1]

\* left_area > target_area
TooLarge(left_area, tgt) == left_area * tgt[2] > tgt[1]

(***************************************************************************)
(* split_poly as a function of its arguments: what it returns ("split",    *)
(* "none" for (None, None), "raise" for the ZeroDivisionError) and after   *)
(* how many iterations of the loop; "running" when MaxIters iterations     *)
(* have not ended the search.  empty_is_none is what poly.clip does with   *)
(* an empty intersection, the same in every call.                          *)
(***************************************************************************)
RECURSIVE search(_, _, _, _, _, _, _)
search(poly, tgt, search_tolerance, lo, hi, k, empty_is_none) ==
  IF ~(lo < hi) THEN [res |-> "none", iters |-> k]
  ELSE IF k = MaxIters THEN [res |-> "running", iters |-> k]
  ELSE LET mbr == extent(poly)
           dMid == MidPoint(lo, hi)
           left == Intersection(poly, left_splitter(mbr, IsHoriz(mbr), dMid))
       IN IF left = {} /\ empty_is_none THEN [res |-> "none", iters |-> k + 1]
          ELSE IF tgt[1] = 0 THEN [res |-> "raise", iters |-> k + 1]
          ELSE IF Converged(SumArea(left), tgt, search_tolerance)
          THEN [res |-> "split", iters |-> k + 1]
          ELSE IF TooLarge(SumArea(left), tgt)
          THEN search(poly, tgt, search_tolerance, lo, dMid, k + 1, empty_is_none)
          ELSE search(poly, tgt, search_tolerance, dMid, hi, k + 1, empty_is_none)

split_poly(poly, tgt, search_tolerance, empty_is_none) ==
  IF NoSplit(poly, tgt) THEN [res |-> "none", iters |-> 0]
  ELSE LET mbr == extent(poly)
       IN search(poly, tgt, search_tolerance,
                 IF IsHoriz(mbr) THEN mbr.XMin ELSE mbr.YMin,
                 IF IsHoriz(mbr) THEN mbr.XMax ELSE mbr.YMax,
                 0, empty_is_none)

IsTerminal_lt(num_parts) == num_parts < 1

\* num_parts <= 1
IsTerminal(num_parts) == num_parts <= 1

\* math.ceil(num_parts / 2.0) or math.floor(num_parts / 2.0), as random.random() falls
LeftPartsChoices_whole(num_parts) ==
  IF num_parts % 2 = 0 THEN {num_parts \div 2}
  ELSE {num_parts, num_parts \div 2}

LeftPartsChoices(num_parts) ==
  IF num_parts % 2 = 0 THEN {num_parts \div 2}
  ELSE {(num_parts + 1) \div 2, num_parts \div 2}

RightParts_same(num_parts, left_parts) ==
  IF num_parts % 2 = 0 THEN num_parts \div 2 ELSE left_parts

\* right_parts = num_parts / 2 (even), num_parts - left_parts (odd)
RightParts(num_parts, left_parts) ==
  IF num_parts % 2 = 0 THEN num_parts \div 2 ELSE num_parts - left_parts

LeftArea_perPart(poly_area, num_parts, left_parts) ==
  IF num_parts % 2 = 0 THEN <<poly_area, num_parts>>
  ELSE <<left_parts * poly_area, num_parts>>

LeftArea_half(poly_area, num_parts, left_parts) == <<poly_area, 2>>

\* left_area = poly_area / 2 (even), left_parts * (poly_area / num_parts) (odd)
LeftArea(poly_area, num_parts, left_parts) ==
  IF num_parts % 2 = 0 THEN <<poly_area, 2>>
  ELSE <<left_parts * poly_area, num_parts>>

NumParts_ceil(shp, max_acres) ==
  (area(shp) * max_acres[2] + SqUnitsPerAcre * max_acres[1] - 1)
    \div (SqUnitsPerAcre * max_acres[1])

NextFeatCount_stuck(feat_count) == feat_count

\* feat_count[0] += 1
NextFeatCount(feat_count) == feat_count + 1

\* math.floor(curr_acres / max_acres), max_acres a rational <<mn, md>>
NumParts(shp, max_acres) ==
  (area(shp) * max_acres[2]) \div (SqUnitsPerAcre * max_acres[1])

(***************************************************************************)
(* The inputs.                                                             *)
(***************************************************************************)
Square == Poly({<<0, 0, 256, 256>>})
Wide == Poly({<<0, 0, 512, 256>>})
Tiny3 == Poly({<<0, 0, 3, 1>>})
Tiny2 == Poly({<<0, 0, 2, 1>>})
Dot == Poly({<<0, 0, 1, 1>>})
LShape == Poly({<<0, 0, 64, 16>>, <<0, 16, 16, 64>>})
TwoPart == Poly({<<0, 0, 16, 32>>, <<48, 0, 64, 32>>})
Empty == Poly({})
\* area 10 when max_acres is 3: 163840 square units are 40960 acres, max_acres 12288
Ten == Poly({<<0, 0, 640, 256>>})

Polys == {Square, Wide, Tiny3, Tiny2, Dot, LShape, TwoPart, Empty, Ten}
TolSet == {0, DefaultTol, 10}

\* targets handed to split_poly directly: fractions of the polygon's area and fixed ones
BisectTargets(p) ==
  {<<k * area(p), 4>> : k \in 1..5}
    \cup {<<area(p), 3>>, <<0, 1>>, <<0 - 1, 1>>, <<5, 1>>, <<399, 200>>}

MaxAcresSet == {<<8000, 1>>, <<12288, 1>>, <<1, 8>>, <<1, 12>>}

RECURSIVE SeqsUpTo(_, _)
SeqsUpTo(S, k) ==
  IF k = 0 THEN {<<>>}
  ELSE LET shorter == SeqsUpTo(S, k - 1)
       IN shorter \cup {Append(s, x) : s \in {t \in shorter : Len(t) = k - 1}, x \in S}

\* The place of a recursive_split call in the call tree: the sides taken from the
\* top-level call down to it, 0 for the first recursive call (left), 1 for the second.
NoTask == [poly |-> NoneVal, n |-> 0, depth |-> 0, path |-> <<>>, lp |-> 0, rp |-> 0]
NoRet == [left |-> NoneVal, right |-> NoneVal]

VARIABLES
  mode,       \* which entry point runs: "bisect", "partition" or "batch"
  tol,        \* search_tolerance, in 1/TolDen
  top,        \* the arguments of the running top-level recursive_split call
  stack,      \* the pending recursive_split calls, next one first
  cur,        \* the recursive_split call whose split_poly call is running
  target,     \* target_area of the running split_poly call
  is_horiz, dMin, dMax,   \* the locals of split_poly
  iters,      \* iterations of the search loop begun in this split_poly call
  clips,      \* poly.clip calls made in this split_poly call
  ret,        \* what the last split_poly call returned
  log,        \* every split_poly call of this recursive_split call, with its result
  emitted,    \* the values passed to on_done_splitting, in order
  emitPaths,  \* for each emitted value, the place of its task in the call tree
  pc,         \* where control is
  rows,       \* split_equal_area: the input rows
  max_acres,  \* split_equal_area: max_acres
  rowIdx,     \* split_equal_area: rows read from the search cursor so far
  feat_count, \* split_equal_area: feat_count[0]
  out,        \* split_equal_area: the rows inserted into the output feature class
  workspace,  \* arcpy.env.workspace
  tw,         \* the TempWork instances: self.workspace, self.old_workspace
  blocks,     \* the `with` blocks now active, outermost first
  orig_workspace,  \* arcpy.env.workspace before the first block was entered
  last_exit,  \* the last __exit__ call: the workspace when its block was entered and after
  folder,     \* numbers of the scratch geodatabases in ScratchGdb.scratch_folder
  sg_pc,      \* where each process is in ScratchGdb.__init__
  existing,   \* each process's local `existing`
  gdb_name,   \* each process's local gdb_name (its number)
  created     \* for each process whose CreateFileGDB call began: did the name exist

vars == <<mode, tol, top, stack, cur, target, is_horiz, dMin, dMax, iters, clips,
          ret, log, emitted, emitPaths, pc, rows, max_acres, rowIdx, feat_count, out,
          workspace, tw, blocks, orig_workspace, last_exit,
          folder, sg_pc, existing, gdb_name, created>>

searchVars == <<is_horiz, dMin, dMax>>
batchVars == <<rows, max_acres, rowIdx>>
polyVars == <<mode, tol, top, stack, cur, target, is_horiz, dMin, dMax, iters, clips,
              ret, log, emitted, emitPaths, pc, rows, max_acres, rowIdx, feat_count, out>>
envVars == <<workspace, tw, blocks, orig_workspace, last_exit>>
gdbVars == <<folder, sg_pc, existing, gdb_name, created>>
utilVars == <<envVars, gdbVars>>

\* the values arcpy.env.workspace takes ("None": no workspace set)
Workspaces == {"None", "c:/temp", "c:/data"}
\* the TempWork instances of the program
Instances == {1, 2}
NoExit == [inst |-> 0, entered |-> "None", after |-> "None", exc |-> FALSE]

\* the numbers random.randint draws from, and the processes constructing a ScratchGdb
Names == 0..MaxName
Procs == {"p", "q"}
NoName == 0 - 1

InitCommon ==
  /\ cur = NoTask /\ is_horiz = FALSE /\ dMin = 0 /\ dMax = 0
  /\ iters = 0 /\ clips = 0 /\ ret = NoRet /\ log = <<>> /\ emitted = <<>>
  /\ emitPaths = <<>>
  /\ feat_count = 1 /\ out = <<>> /\ rowIdx = 0

InitBisect ==
  /\ mode = "bisect" /\ pc = "bisect"
  /\ tol \in TolSet
  /\ \E p \in Polys \cup {NoneVal} :
       /\ top = [poly |-> p, n |-> 0]
       /\ target \in BisectTargets(p)
  /\ stack = <<>> /\ rows = <<>> /\ max_acres = <<1, 1>>

InitPartition ==
  /\ mode = "partition" /\ pc = "call"
  /\ tol \in TolSet
  /\ \E p \in Polys, n \in (0 - 1)..MaxParts :
       /\ top = [poly |-> p, n |-> n]
       /\ stack = <<[poly |-> p, n |-> n, depth |-> 0, path |-> <<>>]>>
  /\ target = <<0, 1>> /\ rows = <<>> /\ max_acres = <<1, 1>>

InitBatch ==
  /\ mode = "batch" /\ pc = "row"
  /\ tol = DefaultTol
  /\ max_acres \in MaxAcresSet
  /\ rows \in {s \in SeqsUpTo(Polys, MaxRows) :
                 \A i \in 1..Len(s) : NumParts(s[i], max_acres) <= MaxParts}
  /\ top = [poly |-> NoneVal, n |-> 0]
  /\ stack = <<>> /\ target = <<0, 1>>

\* no splitting call is made
InitNoSplitting ==
  /\ pc = "idle" /\ tol = DefaultTol
  /\ top = [poly |-> NoneVal, n |-> 0]
  /\ stack = <<>> /\ target = <<0, 1>>
  /\ rows = <<>> /\ max_acres = <<1, 1>>

\* no TempWork block has been entered
InitNoTempWork ==
  /\ blocks = <<>> /\ last_exit = NoExit
  /\ orig_workspace = workspace
  /\ \A i \in Instances : tw[i].old_workspace = "unset"

\* no ScratchGdb is being constructed
InitNoScratch ==
  /\ sg_pc = [p \in Procs |-> "start"]
  /\ existing = [p \in Procs |-> {}]
  /\ gdb_name = [p \in Procs |-> NoName]
  /\ created = [p \in Procs |-> "no"]

\* TempWork.__init__: each instance keeps the workspace it was given
InitTempWork ==
  /\ mode = "tempwork"
  /\ workspace \in Workspaces
  /\ tw \in [Instances -> [workspace : Workspaces, old_workspace : {"unset"}]]
  /\ folder = {}

\* the scratch folder holds any of the scratch geodatabases
InitScratch ==
  /\ mode = "scratch"
  /\ folder \in SUBSET Names
  /\ workspace = "None"
  /\ tw = [i \in Instances |-> [workspace |-> "None", old_workspace |-> "unset"]]

InitSplitting ==
  /\ InitBisect \/ InitPartition \/ InitBatch
  /\ workspace = "None" /\ folder = {}
  /\ tw = [i \in Instances |-> [workspace |-> "None", old_workspace |-> "unset"]]

Init ==
  /\ InitCommon
  /\ \/ InitSplitting
     \/ InitNoSplitting /\ InitTempWork
     \/ InitNoSplitting /\ InitScratch
  /\ InitNoTempWork /\ InitNoScratch

(***************************************************************************)
(* split_poly returns (left, right) to its caller.  Called directly, the   *)
(* run is over; called by recursive_split, the two recursive calls come    *)
(* next, the left one first.                                               *)
(***************************************************************************)
Children_rightFirst(task, left, right) ==
  <<[poly |-> right, n |-> task.rp, depth |-> task.depth + 1,
     path |-> Append(task.path, 1)],
    [poly |-> left, n |-> task.lp, depth |-> task.depth + 1,
     path |-> Append(task.path, 0)]>>

\* recursive_split(left, left_parts, ...) and then recursive_split(right, right_parts, ...)
Children(task, left, right) ==
  <<[poly |-> left, n |-> task.lp, depth |-> task.depth + 1,
     path |-> Append(task.path, 0)],
    [poly |-> right, n |-> task.rp, depth |-> task.depth + 1,
     path |-> Append(task.path, 1)]>>

Return(base, task, tgt, left, right, it, cl, mid) ==
  /\ ret' = [left |-> left, right |-> right]
  /\ log' = Append(log, [poly |-> task.poly, n |-> task.n, lp |-> task.lp,
                         rp |-> task.rp, depth |-> task.depth, path |-> task.path,
                         target |-> tgt,
                         left |-> left, right |-> right, iters |-> it,
                         clips |-> cl, dMid |-> mid])
  /\ IF mode = "bisect"
     THEN pc' = "done" /\ stack' = base
     ELSE /\ pc' = "call"
          /\ stack' = Children(task, left, right) \o base

\* split_poly, from its entry to the first test of the loop condition
EnterSplitPoly(base, task, tgt) ==
  /\ cur' = task /\ target' = tgt /\ iters' = 0 /\ clips' = 0
  /\ IF NoSplit(task.poly, tgt)
     THEN /\ Return(base, task, tgt, NoneVal, NoneVal, 0, 0, 0)
          /\ UNCHANGED searchVars
     ELSE /\ LET mbr == extent(task.poly)
             IN /\ is_horiz' = IsHoriz(mbr)
                /\ dMin' = IF IsHoriz(mbr) THEN mbr.XMin ELSE mbr.YMin
                /\ dMax' = IF IsHoriz(mbr) THEN mbr.XMax ELSE mbr.YMax
          /\ pc' = "search" /\ stack' = base
          /\ UNCHANGED <<ret, log>>

\* a direct call split_poly(poly, target_area, search_tolerance)
split_poly_call ==
  /\ pc = "bisect"
  /\ EnterSplitPoly(<<>>, [poly |-> top.poly, n |-> 0, depth |-> 0, path |-> <<>>, lp |-> 0,
                           rp |-> 0],
                    target)
  /\ UNCHANGED <<utilVars, mode, tol, top, emitted, emitPaths, feat_count, out, batchVars>>

\* one iteration of the search loop of split_poly
split_poly_iter ==
  /\ pc = "search" /\ dMin < dMax
  /\ LET dMid == MidPoint(dMin, dMax)
         mbr == extent(cur.poly)
         it == Min(iters + 1, MaxIters)
     IN /\ iters' = it
        /\ \E left \in clip(cur.poly, left_splitter(mbr, is_horiz, dMid)) :
             IF left.null
             THEN /\ clips' = Min(clips + 1, MaxIters)
                  /\ Return(stack, cur, target, NoneVal, NoneVal, it,
                            Min(clips + 1, MaxIters), dMid)
                  /\ UNCHANGED searchVars
             ELSE IF target[1] = 0
             THEN \* left_area / target_area raises ZeroDivisionError
                  /\ clips' = Min(clips + 1, MaxIters)
                  /\ pc' = "ZeroDivisionError"
                  /\ UNCHANGED <<searchVars, stack, ret, log>>
             ELSE IF Converged(area(left), target, tol)
             THEN \E right \in clip(cur.poly, right_splitter(mbr, is_horiz, dMid)) :
                    /\ clips' = Min(clips + 2, MaxIters)
                    /\ Return(stack, cur, target, left, right, it,
                              Min(clips + 2, MaxIters), dMid)
                    /\ UNCHANGED searchVars
             ELSE /\ clips' = Min(clips + 1, MaxIters)
                  /\ IF TooLarge(area(left), target)
                     THEN dMax' = dMid /\ dMin' = dMin
                     ELSE dMin' = dMid /\ dMax' = dMax
                  /\ UNCHANGED <<is_horiz, pc, stack, ret, log>>
  /\ UNCHANGED <<utilVars, mode, tol, top, cur, target, emitted, emitPaths, feat_count, out, batchVars>>

\* the loop condition dMin < dMax fails: return None, None
split_poly_exhausted ==
  /\ pc = "search" /\ ~(dMin < dMax)
  /\ Return(stack, cur, target, NoneVal, NoneVal, iters, clips, dMin)
  /\ UNCHANGED <<utilVars, mode, tol, top, cur, target, searchVars, iters, clips, emitted, emitPaths,
                 feat_count, out, batchVars>>

(***************************************************************************)
(* recursive_split(poly, num_parts, on_done_splitting, search_tolerance)   *)
(***************************************************************************)
\* num_parts <= 1: on_done_splitting(poly); in split_equal_area that is on_done
recursive_split_emit ==
  /\ pc = "call" /\ stack # <<>>
  /\ IsTerminal(Head(stack).n)
  /\ emitted' = Append(emitted, Head(stack).poly)
  /\ emitPaths' = Append(emitPaths, Head(stack).path)
  /\ stack' = Tail(stack)
  /\ IF mode = "batch"
     THEN /\ out' = Append(out, [part |-> Head(stack).poly, ORIG_FID |-> rowIdx,
                                 SPLIT_SEQ |-> feat_count])
          /\ feat_count' = NextFeatCount(feat_count)
     ELSE UNCHANGED <<out, feat_count>>
  /\ UNCHANGED <<utilVars, mode, tol, top, cur, target, searchVars, iters, clips, ret, log, pc,
                 batchVars>>

\* num_parts >= 2 on None: poly.area raises AttributeError, which nothing catches
recursive_split_none ==
  /\ pc = "call" /\ stack # <<>>
  /\ ~IsTerminal(Head(stack).n)
  /\ Head(stack).poly.null
  /\ pc' = "AttributeError"
  /\ UNCHANGED <<utilVars, mode, tol, top, stack, cur, target, searchVars, iters, clips, ret, log,
                 emitted, emitPaths, feat_count, out, batchVars>>

\* num_parts >= 2: the split shares, then the call of split_poly
recursive_split_split ==
  /\ pc = "call" /\ stack # <<>>
  /\ ~IsTerminal(Head(stack).n)
  /\ ~Head(stack).poly.null
  /\ LET t == Head(stack)
     IN \E left_parts \in LeftPartsChoices(t.n) :
          EnterSplitPoly(Tail(stack),
                         [poly |-> t.poly, n |-> t.n, depth |-> t.depth, path |-> t.path,
                          lp |-> left_parts, rp |-> RightParts(t.n, left_parts)],
                         LeftArea(area(t.poly), t.n, left_parts))
  /\ UNCHANGED <<utilVars, mode, tol, top, emitted, emitPaths, feat_count, out, batchVars>>

\* the top-level recursive_split call returns
recursive_split_return ==
  /\ pc = "call" /\ stack = <<>>
  /\ pc' = IF mode = "batch" THEN "row" ELSE "done"
  /\ UNCHANGED <<utilVars, mode, tol, top, stack, cur, target, searchVars, iters, clips, ret, log,
                 emitted, emitPaths, feat_count, out, batchVars>>

(***************************************************************************)
(* split_equal_area: the loop over the input rows.                         *)
(***************************************************************************)
split_equal_area_row ==
  /\ pc = "row" /\ rowIdx < Len(rows)
  /\ LET curr_shp == rows[rowIdx + 1]
         num_parts == NumParts(curr_shp, max_acres)
     IN /\ top' = [poly |-> curr_shp, n |-> num_parts]
        /\ stack' = <<[poly |-> curr_shp, n |-> num_parts, depth |-> 0, path |-> <<>>]>>
  /\ rowIdx' = rowIdx + 1
  /\ feat_count' = 1
  /\ emitted' = <<>> /\ emitPaths' = <<>> /\ log' = <<>>
  /\ pc' = "call"
  /\ UNCHANGED <<utilVars, mode, tol, cur, target, searchVars, iters, clips, ret, out, rows,
                 max_acres>>

split_equal_area_end ==
  /\ pc = "row" /\ rowIdx = Len(rows)
  /\ pc' = "done"
  /\ UNCHANGED <<utilVars, mode, tol, top, stack, cur, target, searchVars, iters, clips, ret, log,
                 emitted, emitPaths, feat_count, out, batchVars>>

(***************************************************************************)
(* TempWork: the context manager that sets arcpy.env.workspace.            *)
(***************************************************************************)
\* `with t:` for a TempWork instance t, in any block or none
TempWork_enter(i) ==
  /\ mode = "tempwork" /\ Len(blocks) < MaxNest
  /\ tw' = [tw EXCEPT ![i].old_workspace = workspace]
  /\ workspace' = tw[i].workspace
  /\ blocks' = Append(blocks, [inst |-> i, entered |-> workspace])
  /\ UNCHANGED <<polyVars, gdbVars, orig_workspace, last_exit>>

\* the innermost block ends, by reaching its end or by an exception: __exit__
\* does not look at its arguments and returns None, so an exception goes on
TempWork_exit(exc) ==
  /\ mode = "tempwork" /\ blocks # <<>>
  /\ LET b == blocks[Len(blocks)]
     IN /\ workspace' = tw[b.inst].old_workspace
        /\ last_exit' = [inst |-> b.inst, entered |-> b.entered,
                         after |-> tw[b.inst].old_workspace, exc |-> exc]
  /\ blocks' = SubSeq(blocks, 1, Len(blocks) - 1)
  /\ UNCHANGED <<polyVars, gdbVars, tw, orig_workspace>>

(***************************************************************************)
(* ScratchGdb.__init__, run by each process on the same scratch folder.    *)
(***************************************************************************)
\* existing = [f for f in os.listdir(work) if f.endswith('.gdb')]
ScratchGdb_listdir(p) ==
  /\ mode = "scratch" /\ sg_pc[p] = "start"
  /\ existing' = [existing EXCEPT ![p] = folder]
  /\ sg_pc' = [sg_pc EXCEPT ![p] = "loop"]
  /\ UNCHANGED <<polyVars, envVars, folder, gdb_name, created>>

\* one iteration of `while True`: draw a number, leave the loop if its name
\* is not in `existing`
ScratchGdb_draw(p) ==
  /\ mode = "scratch" /\ sg_pc[p] = "loop"
  /\ \E n \in Names :
       /\ gdb_name' = [gdb_name EXCEPT ![p] = n]
       /\ sg_pc' = [sg_pc EXCEPT ![p] = IF n \notin existing[p] THEN "create" ELSE "loop"]
  /\ UNCHANGED <<polyVars, envVars, folder, existing, created>>

\* arcpy.CreateFileGDB_management(work, gdb_name): on a name that exists by
\* now it raises, or replaces the geodatabase when arcpy.env.overwriteOutput is set
ScratchGdb_create(p) ==
  /\ mode = "scratch" /\ sg_pc[p] = "create"
  /\ IF gdb_name[p] \in folder
     THEN /\ created' = [created EXCEPT ![p] = "existed"]
          /\ \E overwriteOutput \in BOOLEAN :
               sg_pc' = [sg_pc EXCEPT ![p] = IF overwriteOutput THEN "done"
                                                                ELSE "ExecuteError"]
          /\ UNCHANGED folder
     ELSE /\ created' = [created EXCEPT ![p] = "new"]
          /\ folder' = folder \cup {gdb_name[p]}
          /\ sg_pc' = [sg_pc EXCEPT ![p] = "done"]
  /\ UNCHANGED <<polyVars, envVars, existing, gdb_name>>

Next ==
  \/ \E i \in Instances : TempWork_enter(i)
  \/ \E exc \in BOOLEAN : TempWork_exit(exc)
  \/ \E p \in Procs : ScratchGdb_listdir(p)
  \/ \E p \in Procs : ScratchGdb_draw(p)
  \/ \E p \in Procs : ScratchGdb_create(p)
  \/ split_poly_call
  \/ split_poly_iter
  \/ split_poly_exhausted
  \/ recursive_split_emit
  \/ recursive_split_none
  \/ recursive_split_split
  \/ recursive_split_return
  \/ split_equal_area_row
  \/ split_equal_area_end

Spec == Init /\ [][Next]_vars

(***************************************************************************)
(* Vocabulary of the properties.                                           *)
(***************************************************************************)
\* every split_poly call of the running recursive_split call returned two pieces
FullSuccess ==
  \A i \in 1..Len(log) : ~log[i].left.null /\ ~log[i].right.null

\* some split_poly call of the running recursive_split call returned (None, None)
SomeSplitFailed ==
  \E i \in 1..Len(log) : log[i].left.null /\ log[i].right.null

PartitionDone == mode = "partition" /\ pc = "done"

RECURSIVE SumSeqArea(_)
SumSeqArea(ps) ==
  IF ps = <<>> THEN 0 ELSE area(Head(ps)) + SumSeqArea(Tail(ps))

\* the area two polygons have in common
OverlapArea(p, q) ==
  SumArea({c \in {ClipRect(r, s) : r \in p.rects, s \in q.rects} :
             c[1] < c[3] /\ c[2] < c[4]})

(***************************************************************************)
(* C1.  Count exactness: when recursive_split(P, n, emit) with n >= 1 has  *)
(* returned and every split_poly call in it returned a left and a right    *)
(* piece, emit has been called exactly n times, whichever side each odd    *)
(* split favoured.                                                         *)
(***************************************************************************)
C1_CountExactness ==
  (PartitionDone /\ top.n >= 1 /\ FullSuccess) => Len(emitted) = top.n

C1_Witness ==
  /\ PartitionDone /\ FullSuccess
  /\ top.n = 5 /\ Len(emitted) = 5 /\ Len(log) = 4
  /\ log[1].lp = 3

(***************************************************************************)
(* C2.  Failure propagation: when split_poly returns (None, None) inside   *)
(* recursive_split for a task with num_parts >= 2, the call does not       *)
(* complete as if it had succeeded.                                        *)
(***************************************************************************)
C2_FailurePropagates ==
  PartitionDone => ~SomeSplitFailed

(***************************************************************************)
(* C3.  Bisector termination: the search loop of split_poly does not run   *)
(* forever.  The loop's whole state is (dMin, dMax), and when the left     *)
(* clip is not empty its body is a function of that state, so an           *)
(* iteration that stays in the loop must change (dMin, dMax): one that     *)
(* leaves both as they were is repeated without end.                       *)
(***************************************************************************)
LeftClipNotEmpty ==
  Intersection(cur.poly,
               left_splitter(extent(cur.poly), is_horiz, MidPoint(dMin, dMax))) # {}

C3_SearchMakesProgress ==
  [][(pc = "search" /\ pc' = "search" /\ LeftClipNotEmpty)
       => <<dMin', dMax'>> # <<dMin, dMax>>]_vars

\* split_poly on a 3 x 1 rectangle, target 1.5, default tolerance: still searching
\* between 1 and 2 after MaxIters iterations
C3_Witness ==
  /\ mode = "bisect" /\ top.poly = Tiny3 /\ target = <<2 * area(Tiny3), 4>>
  /\ tol = DefaultTol
  /\ pc = "search" /\ iters = MaxIters
  /\ dMin = 1 /\ dMax = 2

(***************************************************************************)
(* C4.  Area conservation: on full success of recursive_split(P, n, emit)  *)
(* the areas of the emitted parts sum to P.area, every part lies in P, and *)
(* no two parts overlap (so together they cover P).                        *)
(***************************************************************************)
C4_AreaConservation ==
  (PartitionDone /\ top.n >= 1 /\ FullSuccess) =>
    /\ SumSeqArea(emitted) = area(top.poly)
    /\ \A i \in 1..Len(emitted) :
         /\ ~emitted[i].null
         /\ OverlapArea(emitted[i], top.poly) = area(emitted[i])
    /\ \A i, j \in 1..Len(emitted) :
         i < j => OverlapArea(emitted[i], emitted[j]) = 0

C4_Witness ==
  /\ PartitionDone /\ FullSuccess
  /\ top.n = 3 /\ Len(emitted) = 3
  /\ top.poly = LShape
  /\ \A i \in 1..3 : area(emitted[i]) > 0

(***************************************************************************)
(* C5.  Per-part area closeness: on full success of recursive_split the    *)
(* relative difference in area between any two emitted parts does not      *)
(* exceed the search tolerance.                                            *)
(***************************************************************************)
C5_PartsWithinTolerance ==
  (PartitionDone /\ top.n >= 1 /\ FullSuccess) =>
    \A i, j \in 1..Len(emitted) :
      Abs(area(emitted[i]) - area(emitted[j])) * TolDen
        <= tol * Max(area(emitted[i]), area(emitted[j]))

\* the unit square at 1/256, three parts, default tolerance, two parts to the left:
\* every split succeeds and the parts differ by 256 / 22016, more than 1 / 200
C5_Witness ==
  /\ PartitionDone /\ FullSuccess
  /\ top.poly = Square /\ top.n = 3 /\ tol = DefaultTol
  /\ log[1].lp = 2
  /\ area(emitted[1]) = 21760 /\ area(emitted[2]) = 21760 /\ area(emitted[3]) = 22016

(***************************************************************************)
(* C6.  Base case: recursive_split(P, num_parts, emit) with num_parts <= 1 *)
(* (1, 0 and below) calls emit exactly once, with P itself, makes no       *)
(* split_poly call and no recursive call, and returns.                     *)
(***************************************************************************)
C6_BaseCase ==
  (mode = "partition" /\ top.n <= 1) =>
    /\ pc \in {"call", "done"}
    /\ Len(log) = 0
    /\ \/ stack = <<[poly |-> top.poly, n |-> top.n, depth |-> 0, path |-> <<>>]>>
          /\ emitted = <<>>
       \/ stack = <<>> /\ emitted = <<top.poly>>

C6_Witness ==
  /\ PartitionDone /\ top.n = 0 /\ top.poly = Square
  /\ emitted = <<Square>>

(***************************************************************************)
(* C7.  No-split boundary: split_poly(P, target_area, tol) with            *)
(* target_area >= P.area returns (None, None) and performs no clip and no  *)
(* search iteration.                                                       *)
(***************************************************************************)
C7_NoSplitBoundary ==
  (mode = "bisect" /\ ~top.poly.null /\ target[1] >= area(top.poly) * target[2]) =>
    /\ pc \in {"bisect", "done"}
    /\ iters = 0 /\ clips = 0
    /\ pc = "done" => (ret = NoRet /\ Len(log) = 1)

C7_Witness ==
  /\ mode = "bisect" /\ pc = "done"
  /\ top.poly = Tiny2 /\ target = <<5, 1>>
  /\ ret = NoRet /\ clips = 0

(***************************************************************************)
(* C8.  Bisector success postcondition: whenever split_poly returns a      *)
(* split, the left piece is within the tolerance of the target, the two    *)
(* pieces are the clips at one midpoint, and the left piece comes with a   *)
(* right piece.                                                            *)
(***************************************************************************)
C8_SplitPostcondition ==
  \A i \in 1..Len(log) :
    ~log[i].left.null =>
      LET e == log[i]
          mbr == extent(e.poly)
      IN /\ Converged(area(e.left), e.target, tol)
         /\ e.left.rects = Intersection(e.poly, left_splitter(mbr, IsHoriz(mbr), e.dMid))
         /\ e.right.rects = Intersection(e.poly, right_splitter(mbr, IsHoriz(mbr), e.dMid))
         /\ ~e.right.null

(***************************************************************************)
(* C9.  Invalid input fails fast: recursive_split with a negative          *)
(* num_parts, or with a zero-area polygon and num_parts >= 2, makes no     *)
(* split_poly call and no emit call.                                       *)
(***************************************************************************)
C9_InvalidInputFailsFast ==
  (mode = "partition" /\ (top.n < 0 \/ (area(top.poly) = 0 /\ top.n >= 2))) =>
    (Len(log) = 0 /\ Len(emitted) = 0)

(***************************************************************************)
(* C10.  Batch isolation: in split_equal_area a failed split in one row    *)
(* never aborts the rest of the batch: when the run is over, every input   *)
(* row has been processed.                                                 *)
(***************************************************************************)
C10_BatchIsolation ==
  (mode = "batch" /\ pc \in {"done", "AttributeError"}) => rowIdx = Len(rows)

(***************************************************************************)
(* C11.  Emission order: at every level of the recursion every part from   *)
(* the left piece's subtree is emitted before any part from the right      *)
(* piece's subtree: of any two emitted parts, the earlier one took the     *)
(* left side and the later one the right side where their paths part.      *)
(***************************************************************************)
LeftOf(p, q) ==
  \E k \in 1..Min(Len(p), Len(q)) :
    /\ \A j \in 1..(k - 1) : p[j] = q[j]
    /\ p[k] = 0 /\ q[k] = 1

C11_EmissionOrder ==
  /\ Len(emitPaths) = Len(emitted)
  /\ \A i, j \in 1..Len(emitPaths) :
       i < j => LeftOf(emitPaths[i], emitPaths[j])

C11_Witness ==
  /\ PartitionDone /\ FullSuccess /\ top.n = 5
  /\ emitPaths = <<<<0, 0, 0>>, <<0, 0, 1>>, <<0, 1>>, <<1, 0>>, <<1, 1>>>>

(***************************************************************************)
(* C12.  Max-area entry point: for each input polygon split_equal_area     *)
(* partitions into num_parts = floor(area / max_area) parts (the largest   *)
(* n with n * max_area <= area); when that is 0 the polygon is emitted     *)
(* once, unchanged; a polygon of area 10 with max area 3 gives exactly 3   *)
(* parts of about 3.33 each (here: within three tolerances of a third).    *)
(***************************************************************************)
RowFinished == mode = "batch" /\ pc = "row" /\ rowIdx >= 1

C12_MaxAreaEntry ==
  (mode = "batch" /\ rowIdx >= 1) =>
    LET shp == rows[rowIdx]
        unit == SqUnitsPerAcre * max_acres[1]
    IN /\ top.poly = shp
       /\ top.n * unit <= area(shp) * max_acres[2]
       /\ area(shp) * max_acres[2] < (top.n + 1) * unit
       /\ (RowFinished /\ top.n = 0) => emitted = <<shp>>
       /\ (RowFinished /\ top.n >= 1 /\ FullSuccess) => Len(emitted) = top.n
       /\ (RowFinished /\ shp = Ten /\ max_acres = <<12288, 1>>) =>
            /\ Len(emitted) = 3
            /\ \A i \in 1..3 :
                 Abs(3 * area(emitted[i]) - area(Ten)) * TolDen
                   <= 3 * DefaultTol * area(Ten)

C12_Witness ==
  /\ RowFinished /\ rowIdx = 2
  /\ rows = <<LShape, Ten>> /\ max_acres = <<12288, 1>>
  /\ Len(emitted) = 3 /\ FullSuccess
  /\ Len(out) = 4 /\ out[1].part = LShape

(***************************************************************************)
(* C13.  Sequence numbering: the parts written for an input row carry     *)
(* that row's identifier and the sequence numbers 1, 2, ..., k in emission *)
(* order; the counter restarts at 1 for each row.                          *)
(***************************************************************************)
RowsOf(fid) == {i \in 1..Len(out) : out[i].ORIG_FID = fid}

C13_SequenceNumbers ==
  mode = "batch" =>
    /\ \A i \in 1..Len(out) :
         /\ out[i].ORIG_FID \in 1..rowIdx
         /\ out[i].SPLIT_SEQ = Cardinality({j \in RowsOf(out[i].ORIG_FID) : j <= i})
         /\ i > 1 => out[i - 1].ORIG_FID <= out[i].ORIG_FID
    /\ rowIdx >= 1 =>
         /\ Cardinality(RowsOf(rowIdx)) = Len(emitted)
         /\ feat_count = Len(emitted) + 1
         /\ \A k \in 1..Len(emitted) :
              out[Len(out) - Len(emitted) + k] =
                [part |-> emitted[k], ORIG_FID |-> rowIdx, SPLIT_SEQ |-> k]

C13_Witness ==
  /\ mode = "batch" /\ pc = "done" /\ rowIdx = 2
  /\ Len(out) = 6
  /\ out[2].SPLIT_SEQ = 2 /\ out[2].ORIG_FID = 1
  /\ out[3].SPLIT_SEQ = 1 /\ out[3].ORIG_FID = 2
  /\ out[6].SPLIT_SEQ = 4

(***************************************************************************)
(* C14.  Tolerance monotonicity: for a fixed polygon and target area and   *)
(* tolerances t1 <= t2, if split_poly succeeds with t1 it succeeds with    *)
(* t2, in no more iterations.  The run by steps agrees with the function.  *)
(***************************************************************************)
C14_ToleranceMonotone ==
  mode = "bisect" =>
    /\ \A b \in BOOLEAN : \A t1, t2 \in TolSet :
         (t1 <= t2 /\ split_poly(top.poly, target, t1, b).res = "split") =>
           /\ split_poly(top.poly, target, t2, b).res = "split"
           /\ split_poly(top.poly, target, t2, b).iters
                <= split_poly(top.poly, target, t1, b).iters
    /\ (pc = "done" /\ ~ret.left.null) =>
         \A b \in BOOLEAN :
           split_poly(top.poly, target, tol, b) = [res |-> "split", iters |-> iters]

C14_Witness ==
  /\ mode = "bisect" /\ pc = "done" /\ ~ret.left.null
  /\ tol = DefaultTol /\ iters >= 5
  /\ split_poly(top.poly, target, 10, TRUE).res = "split"
  /\ split_poly(top.poly, target, 10, TRUE).iters < iters
  /\ split_poly(top.poly, target, 0, TRUE).res # "split"

\* the calls of split_poly made by recursive_split so far: those that have
\* returned and the one in progress
SplitCalls ==
  IF mode = "bisect" THEN {}
  ELSE {[poly |-> log[i].poly, n |-> log[i].n, lp |-> log[i].lp, rp |-> log[i].rp,
         target |-> log[i].target] : i \in 1..Len(log)}
       \cup (IF pc = "search"
             THEN {[poly |-> cur.poly, n |-> cur.n, lp |-> cur.lp, rp |-> cur.rp,
                    target |-> target]}
             ELSE {})

(***************************************************************************)
(* C19.  Part-count allocation: every split made by recursive_split has    *)
(* num_parts >= 2 and left_parts + right_parts = num_parts; for an even    *)
(* num_parts both shares are num_parts / 2 and the target left area is     *)
(* exactly half of the polygon's area.                                     *)
(***************************************************************************)
C19_PartCountAllocation ==
  \A c \in SplitCalls :
    /\ c.n >= 2
    /\ c.lp + c.rp = c.n
    /\ c.n % 2 = 0 =>
         /\ c.lp = c.n \div 2 /\ c.rp = c.n \div 2
         /\ 2 * c.target[1] = area(c.poly) * c.target[2]

\* a 4-way split of the square: the even split at the root and both even
\* splits below it have returned
C19_Witness ==
  /\ PartitionDone /\ top.poly = Square /\ top.n = 4 /\ FullSuccess
  /\ Len(log) = 3
  /\ log[1].n = 4 /\ log[1].lp = 2 /\ log[1].rp = 2
  /\ log[1].target = <<area(Square), 2>>
  /\ log[2].n = 2 /\ log[2].lp = 1 /\ log[2].target = <<area(log[1].left), 2>>

(***************************************************************************)
(* C20.  Odd allocation: for an odd num_parts >= 3, left_parts is          *)
(* ceil(num_parts / 2) or floor(num_parts / 2), either of which the call   *)
(* may take, right_parts = num_parts - left_parts, and the target left     *)
(* area is left_parts * (area / num_parts), which is not half of the area. *)
(***************************************************************************)
C20_OddAllocation ==
  /\ \A c \in SplitCalls :
       c.n % 2 = 1 =>
         /\ c.n >= 3
         /\ c.lp \in {(c.n + 1) \div 2, c.n \div 2}
         /\ c.rp = c.n - c.lp
         /\ c.target[1] * c.n = c.lp * area(c.poly) * c.target[2]
         /\ (area(c.poly) > 0 => 2 * c.target[1] # area(c.poly) * c.target[2])
  /\ (mode # "bisect" /\ pc = "call" /\ stack # <<>>) =>
       LET n == Head(stack).n
       IN (n >= 3 /\ n % 2 = 1) =>
            LeftPartsChoices(n) = {(n + 1) \div 2, n \div 2}

\* a 5-way split takes the larger share on the left (3 of 5), and the 3-way
\* split of that left part takes the smaller one (1 of 3)
C20_Witness ==
  /\ mode = "partition" /\ top.n = 5 /\ Len(log) >= 2
  /\ log[1].n = 5 /\ log[1].lp = 3 /\ log[1].rp = 2
  /\ log[1].target = <<3 * area(top.poly), 5>>
  /\ log[2].n = 3 /\ log[2].lp = 1 /\ log[2].rp = 2
  /\ log[2].target = <<area(log[2].poly), 3>>
  /\ ~log[2].left.null

\* the unit square [0,0]-[1,1] on the model's grid, split in two with the
\* default tolerance, after recursive_split has returned
Scenario1Done ==
  /\ mode = "partition" /\ pc = "done"
  /\ top.poly = Square /\ top.n = 2 /\ tol = DefaultTol

\* exactly two parts are emitted, each within 0.5% of half of the square
TwoHalves ==
  /\ Len(emitted) = 2
  /\ \A i \in 1..2 :
       /\ ~emitted[i].null
       /\ Abs(2 * area(emitted[i]) - area(Square)) * TolDen <= DefaultTol * area(Square)

\* x = 0.5 and y = 0.5 of the unit square
HalfWay == extent(Square).XMin + (extent(Square).width \div 2)

\* C15 as stated: the two parts meet on the vertical line x = 0.5
C15_VerticalBoundary ==
  Scenario1Done =>
    /\ TwoHalves
    /\ \E i, j \in 1..2 :
         /\ i # j
         /\ \A r \in emitted[i].rects : r[3] <= HalfWay
         /\ \A r \in emitted[j].rects : r[1] >= HalfWay

(***************************************************************************)
(* C15.  Scenario 1: splitting the unit square with num_parts = 2 and      *)
(* tolerance 0.005 emits exactly two rectangles, each of area 0.5 within   *)
(* 0.5%; the square's width does not exceed its height, so the split       *)
(* varies Y and the two rectangles meet on the horizontal line y = 0.5,    *)
(* the lower one emitted first.                                            *)
(***************************************************************************)
C15_HorizontalBoundary ==
  Scenario1Done =>
    /\ TwoHalves
    /\ emitted = <<Poly({<<0, 0, 256, HalfWay>>}), Poly({<<0, HalfWay, 256, 256>>})>>
    /\ Len(log) = 1 /\ log[1].iters = 1 /\ log[1].dMid = HalfWay

C15_Witness ==
  /\ Scenario1Done /\ TwoHalves
  /\ \A r \in emitted[1].rects : r[4] <= HalfWay
  /\ \A r \in emitted[2].rects : r[2] >= HalfWay

\* the unit square split in three with the default tolerance, after
\* recursive_split has returned
Scenario2Done ==
  /\ mode = "partition" /\ pc = "done"
  /\ top.poly = Square /\ top.n = 3 /\ tol = DefaultTol

(***************************************************************************)
(* C16.  Scenario 2: splitting the unit square with num_parts = 3 and      *)
(* tolerance 0.005 emits exactly three parts, each with area within 0.5%   *)
(* of 1/3, through two levels of splitting, whichever side the odd split   *)
(* favours.                                                                *)
(***************************************************************************)
C16_Scenario2 ==
  Scenario2Done =>
    /\ Len(emitted) = 3
    /\ \A i \in 1..3 :
         /\ ~emitted[i].null
         /\ Abs(3 * area(emitted[i]) - area(Square)) * TolDen <= DefaultTol * area(Square)
    /\ Len(log) = 2 /\ log[1].depth = 0 /\ log[2].depth = 1

\* two parts to the left: three parts are emitted through two levels of
\* splitting, and the right part of the first split (86/256 of the square)
\* is more than 0.5% above 1/3
C16_Witness ==
  /\ Scenario2Done /\ log[1].lp = 2
  /\ Len(emitted) = 3 /\ Len(log) = 2 /\ log[2].depth = 1
  /\ emitted[3] = log[1].right
  /\ (3 * area(emitted[3]) - area(Square)) * TolDen > DefaultTol * area(Square)
  /\ \A i \in 1..2 :
       Abs(3 * area(emitted[i]) - area(Square)) * TolDen <= DefaultTol * area(Square)

(***************************************************************************)
(* C17.  TempWork restore: when a `with TempWork(w)` block is exited,      *)
(* normally or by an exception, arcpy.env.workspace is what it was when    *)
(* the block was entered; once no block is active the workspace is the     *)
(* original one, also when an instance was entered again while active.     *)
(***************************************************************************)
C17_TempWorkRestore ==
  mode = "tempwork" =>
    /\ last_exit # NoExit => last_exit.after = last_exit.entered
    /\ blocks = <<>> => workspace = orig_workspace

\* instance 1 was entered twice, one block in the other, and both blocks
\* have ended: the workspace is the instance's, not the original one
C17_Witness ==
  /\ mode = "tempwork" /\ blocks = <<>>
  /\ last_exit.inst = 1 /\ last_exit.entered = orig_workspace
  /\ tw[1].old_workspace = tw[1].workspace
  /\ tw[2].old_workspace = "unset"
  /\ workspace = tw[1].workspace /\ workspace # orig_workspace

(***************************************************************************)
(* C18.  ScratchGdb unique name: a construction does not fail, the name it *)
(* creates is not the name of a geodatabase in the scratch folder when it  *)
(* is created, and two processes constructing a ScratchGdb on the same     *)
(* folder never obtain the same name.                                      *)
(***************************************************************************)
C18_UniqueName ==
  mode = "scratch" =>
    /\ \A p \in Procs : sg_pc[p] # "ExecuteError" /\ created[p] # "existed"
    /\ \A p, q \in Procs :
         (p # q /\ sg_pc[p] = "done" /\ sg_pc[q] = "done") => gdb_name[p] # gdb_name[q]

\* both processes listed the empty folder before either created, drew the
\* same number and both hold that name
C18_Witness ==
  /\ mode = "scratch"
  /\ \A p \in Procs : sg_pc[p] = "done" /\ existing[p] = {} /\ gdb_name[p] = 0
  /\ folder = {0}
  /\ \E p, q \in Procs : created[p] = "new" /\ created[q] = "existed"

\* the recursive_split calls a call with this num_parts leads to at most, itself
\* included, when every child gets fewer parts than its parent
Weight(num_parts) == IF num_parts <= 1 THEN 1 ELSE 2 * num_parts - 1

RECURSIVE SumWeight(_)
SumWeight(tasks) ==
  IF tasks = <<>> THEN 0 ELSE Weight(Head(tasks).n) + SumWeight(Tail(tasks))

\* the recursive_split calls still to come: those pending and the two the
\* running split_poly call returns to
Pending ==
  SumWeight(stack) + (IF pc = "search" THEN Weight(cur.lp) + Weight(cur.rp) ELSE 0)

InRecursiveSplit == mode \in {"partition", "batch"} /\ pc \in {"call", "search"}

\* every recursive call gets a num_parts strictly smaller than its parent's
ChildrenSmaller ==
  /\ \A c \in SplitCalls : c.lp < c.n /\ c.rp < c.n
  /\ InRecursiveSplit =>
       \A k \in 1..Len(stack) :
         stack[k].depth >= 1 =>
           /\ stack[k].n < top.n
           /\ \E i \in 1..Len(log) :
                /\ log[i].path = SubSeq(stack[k].path, 1, Len(stack[k].path) - 1)
                /\ stack[k].n < log[i].n

(***************************************************************************)
(* C21.  Recursion termination: every recursive call of recursive_split    *)
(* receives a num_parts strictly smaller than its parent's, and every step *)
(* of recursive_split that does not raise lowers the number of calls still *)
(* to come, which a step of split_poly leaves as it is: the recursion ends *)
(* when every split_poly call does.                                        *)
(***************************************************************************)
C21_RecursionTerminates ==
  /\ [](mode \in {"partition", "batch"} => ChildrenSmaller)
  /\ [][InRecursiveSplit =>
          /\ (pc = "call" /\ stack # <<>> /\ pc' # "AttributeError") => Pending' < Pending
          /\ (pc = "search" /\ pc' # "ZeroDivisionError") => Pending' = Pending
          /\ Pending' <= Pending]_vars

\* a 5-way split under way: the root gave 3 parts to the left, that call gave
\* 2 parts to its left, and three calls are still to come
C21_Witness ==
  /\ mode = "partition" /\ pc = "call" /\ top.n = 5
  /\ Len(log) = 2 /\ log[1].lp = 3 /\ log[2].lp = 2
  /\ Len(stack) = 3 /\ stack[1].n = 2 /\ stack[2].n = 1 /\ stack[3].n = 2
  /\ Pending = 7

\* ceil(log2(n)) for n >= 1: the least k with 2^k >= n
CeilLog2(n) == CHOOSE k \in 0..n : 2^k >= n /\ \A j \in 0..(k - 1) : 2^j < n

(***************************************************************************)
(* C22.  Work bound: when recursive_split(P, n, emit) with n >= 1 has      *)
(* returned and every split succeeded, exactly n - 1 split_poly calls were *)
(* made and no emitted part has more than ceil(log2(n)) splitting calls    *)
(* above it, whichever side each odd split favoured.                       *)
(***************************************************************************)
C22_WorkBound ==
  (PartitionDone /\ top.n >= 1 /\ FullSuccess) =>
    /\ Len(log) = top.n - 1
    /\ \A i \in 1..Len(emitPaths) : Len(emitPaths[i]) <= CeilLog2(top.n)
    /\ \A i \in 1..Len(log) : log[i].depth = Len(log[i].path) /\ log[i].depth < CeilLog2(top.n)

\* a 5-way split with the larger share to the left twice: four split_poly
\* calls, and the first parts lie ceil(log2(5)) = 3 calls deep
C22_Witness ==
  /\ PartitionDone /\ FullSuccess /\ top.n = 5 /\ top.poly = Wide
  /\ Len(log) = 4 /\ Len(emitted) = 5
  /\ Len(emitPaths[1]) = 3 /\ CeilLog2(5) = 3
  /\ Len(emitPaths[5]) = 2

\* the places in the call tree of the calls that have called split_poly, of those
\* that have emitted, and of those begun or pending
SplitPaths ==
  {log[i].path : i \in 1..Len(log)} \cup (IF pc = "search" THEN {cur.path} ELSE {})
EmitPathSet == {emitPaths[i] : i \in 1..Len(emitPaths)}
StackPaths == {stack[k].path : k \in 1..Len(stack)}

\* num_parts of the call at a place of the call tree
TaskN(path) ==
  IF path = <<>> THEN top.n
  ELSE LET e == CHOOSE c \in {log[i] : i \in 1..Len(log)} :
                  c.path = SubSeq(path, 1, Len(path) - 1)
       IN IF path[Len(path)] = 0 THEN e.lp ELSE e.rp

(***************************************************************************)
(* C23.  Two-state task machine: every recursive_split call is terminal    *)
(* (num_parts <= 1: it emits once and stops) or splitting (num_parts >= 2: *)
(* it calls split_poly once and then makes exactly two recursive calls);   *)
(* a splitting call never emits, so emit is only called by terminal calls, *)
(* and no call ends in any other way.                                      *)
(***************************************************************************)
C23_TwoStateTasks ==
  mode \in {"partition", "batch"} =>
    /\ \A i \in 1..Len(emitPaths) :
         /\ TaskN(emitPaths[i]) <= 1
         /\ emitPaths[i] \notin SplitPaths
         /\ \A j \in 1..Len(emitPaths) : emitPaths[j] = emitPaths[i] => j = i
    /\ \A i \in 1..Len(log) :
         /\ log[i].n >= 2
         /\ \A j \in 1..Len(log) : log[j].path = log[i].path => j = i
         /\ \A side \in {0, 1} :
              Append(log[i].path, side) \in SplitPaths \cup EmitPathSet \cup StackPaths
    /\ pc # "AttributeError"

\* a splitting call (2 parts, the right child of a 4-way split of the 1 x 1
\* polygon) ended without calling split_poly and without emitting
C23_Witness ==
  /\ mode = "partition" /\ pc = "AttributeError"
  /\ top.poly = Dot /\ top.n = 4
  /\ Len(log) = 1 /\ log[1].left.null
  /\ Head(stack).n = 2 /\ Head(stack).poly.null
  /\ Head(stack).path \notin SplitPaths \cup EmitPathSet

\* without the last conjunct the statement holds: emit comes from terminal
\* calls only, and a call that calls split_poly does so once and has two children
C23_EmitOnlyFromTerminal ==
  mode \in {"partition", "batch"} =>
    /\ \A i \in 1..Len(emitPaths) :
         TaskN(emitPaths[i]) <= 1 /\ emitPaths[i] \notin SplitPaths
    /\ \A i \in 1..Len(log) :
         /\ log[i].n >= 2
         /\ \A side \in {0, 1} :
              Append(log[i].path, side) \in SplitPaths \cup EmitPathSet \cup StackPaths

\* the search of the running split_poly call is over X between xmin and xmax
\* exactly when the bounding box is wider than high, else over Y
OrientationFollowsExtent ==
  pc = "search" =>
    LET mbr == extent(cur.poly)
    IN /\ is_horiz <=> mbr.width > mbr.height
       /\ mbr.width = mbr.height => ~is_horiz
       /\ is_horiz => /\ mbr.XMin <= dMin /\ dMin <= dMax /\ dMax <= mbr.XMax
                      /\ iters = 0 => dMin = mbr.XMin /\ dMax = mbr.XMax
       /\ ~is_horiz => /\ mbr.YMin <= dMin /\ dMin <= dMax /\ dMax <= mbr.YMax
                       /\ iters = 0 => dMin = mbr.YMin /\ dMax = mbr.YMax

\* the pieces a split_poly call returned lie on the two sides of x = dMid when
\* the bounding box is wider than high, else of y = dMid
PiecesFollowExtent ==
  \A i \in 1..Len(log) :
    ~log[i].left.null =>
      LET e == log[i]
          mbr == extent(e.poly)
      IN IF mbr.width > mbr.height
         THEN /\ \A r \in e.left.rects : r[3] <= e.dMid
              /\ \A r \in e.right.rects : r[1] >= e.dMid
         ELSE /\ \A r \in e.left.rects : r[4] <= e.dMid
              /\ \A r \in e.right.rects : r[2] >= e.dMid

(***************************************************************************)
(* C24.  Orientation selection: split_poly searches over X, between xmin   *)
(* and xmax, exactly when the bounding box's width is strictly greater     *)
(* than its height, and otherwise (also when they are equal) over Y,       *)
(* between ymin and ymax; the orientation does not change during a search. *)
(***************************************************************************)
C24_OrientationSelection ==
  /\ [](OrientationFollowsExtent /\ PiecesFollowExtent)
  /\ [][(pc = "search" /\ pc' = "search") => (is_horiz' = is_horiz /\ cur' = cur)]_vars

\* the 3-way split of the square (width = height) searches over Y: after two
\* iterations it is between y = 128 and y = 192
C24_Witness ==
  /\ mode = "partition" /\ top.n = 3 /\ pc = "search"
  /\ cur.poly = Square /\ cur.lp = 2
  /\ extent(cur.poly).width = extent(cur.poly).height
  /\ ~is_horiz /\ iters = 2 /\ dMin = 128 /\ dMax = 192

\* the area of the left clip at the midpoint of the running search
LeftAreaAtMid ==
  SumArea(Intersection(cur.poly,
                       left_splitter(extent(cur.poly), is_horiz, MidPoint(dMin, dMax))))

\* the extent of the running call's polygon on the search axis
AxisMin == IF is_horiz THEN extent(cur.poly).XMin ELSE extent(cur.poly).YMin
AxisMax == IF is_horiz THEN extent(cur.poly).XMax ELSE extent(cur.poly).YMax

(***************************************************************************)
(* C25.  Search step: an iteration of split_poly that stays in the loop    *)
(* moves the upper bound to the midpoint and leaves the lower bound when   *)
(* the left area is greater than the target, and otherwise moves the lower *)
(* bound to the midpoint and leaves the upper bound; the bounds stay       *)
(* within the bounding box on the search axis and the interval never       *)
(* widens.                                                                 *)
(***************************************************************************)
C25_SearchStep ==
  /\ [](pc = "search" => (AxisMin <= dMin /\ dMin <= dMax /\ dMax <= AxisMax))
  /\ [][(pc = "search" /\ pc' = "search") =>
          /\ IF LeftAreaAtMid * target[2] > target[1]
             THEN dMax' = MidPoint(dMin, dMax) /\ dMin' = dMin
             ELSE dMin' = MidPoint(dMin, dMax) /\ dMax' = dMax
          /\ dMin <= dMin' /\ dMax' <= dMax
          /\ dMax' - dMin' <= dMax - dMin]_vars

\* the search for a third of the square has moved the upper bound to 128, 96 and
\* 88 and the lower one to 64 and 80: five iterations, between y = 80 and y = 88
C25_Witness ==
  /\ mode = "bisect" /\ top.poly = Square /\ target = <<area(Square), 3>>
  /\ pc = "search" /\ iters = 5
  /\ dMin = 80 /\ dMax = 88
  /\ AxisMin = 0 /\ AxisMax = 256

(***************************************************************************)
(* C26.  Empty clip: when the clip of the polygon against the left         *)
(* rectangle is empty in some iteration of the search, split_poly returns  *)
(* (None, None) in that iteration, having clipped the left side only, and  *)
(* no further iteration is made (stated for positive target areas).        *)
(***************************************************************************)
C26_EmptyClipStops ==
  [][(pc = "search" /\ dMin < dMax /\ target[1] > 0 /\ ~LeftClipNotEmpty) =>
       /\ pc' # "search"
       /\ ret' = NoRet
       /\ Len(log') = Len(log) + 1
       /\ log'[Len(log')].left.null /\ log'[Len(log')].right.null
       /\ log'[Len(log')].clips = Min(clips + 1, MaxIters)
       /\ log'[Len(log')].iters = Min(iters + 1, MaxIters)]_vars

\* split_poly on the 2 x 1 rectangle for a quarter of its area: the second
\* midpoint is the rectangle's xmin, the left clip there is empty, and the
\* search is in its fifth iteration with the same bounds
C26_Witness ==
  /\ mode = "bisect" /\ top.poly = Tiny2 /\ target = <<area(Tiny2), 4>>
  /\ pc = "search" /\ is_horiz /\ dMin = 0 /\ dMax = 1
  /\ MidPoint(dMin, dMax) = AxisMin /\ ~LeftClipNotEmpty
  /\ iters = 4 /\ clips = 4 /\ log = <<>>

(***************************************************************************)
(* C27.  Emitted values are polygons: in a run of recursive_split started  *)
(* with a polygon, every value passed to emit is a polygon, never the None *)
(* of a failed split_poly call; so no output row of split_equal_area has   *)
(* None for its shape.                                                     *)
(***************************************************************************)
C27_EmittedArePolygons ==
  (mode \in {"partition", "batch"} /\ ~top.poly.null) =>
    /\ \A i \in 1..Len(emitted) : ~emitted[i].null
    /\ \A i \in 1..Len(out) : ~out[i].part.null

\* split_equal_area on a row whose 2-way split failed: both output rows of
\* the row have None for their shape
C27_Witness ==
  /\ mode = "batch" /\ pc = "done" /\ rowIdx >= 1
  /\ ~top.poly.null /\ top.n = 2
  /\ Len(log) = 1 /\ log[1].left.null /\ log[1].right.null
  /\ emitted = <<NoneVal, NoneVal>>
  /\ out[Len(out)].part.null /\ out[Len(out)].SPLIT_SEQ = 2

(***************************************************************************)
(* C28.  Split-request invariant: every request recursive_split hands to   *)
(* split_poly for a polygon of positive area has num_parts >= 2, a target  *)
(* area strictly between 0 and the polygon's area, and left_parts and      *)
(* right_parts between 1 and num_parts - 1, whichever side an odd split    *)
(* favours; so split_poly does not refuse it at entry.                     *)
(***************************************************************************)
C28_SplitRequest ==
  \A c \in SplitCalls :
    area(c.poly) > 0 =>
      /\ c.n >= 2
      /\ 0 < c.target[1] /\ c.target[2] > 0
      /\ c.target[1] < area(c.poly) * c.target[2]
      /\ 1 <= c.lp /\ c.lp <= c.n - 1
      /\ 1 <= c.rp /\ c.rp <= c.n - 1
      /\ ~(area(c.poly) * c.target[2] <= c.target[1])

\* a 5-way split that gave the smaller share (2) to the left, and the 3-way
\* split of its right piece that gave the larger share (2) to the left
C28_Witness ==
  /\ mode = "partition" /\ top.n = 5 /\ area(top.poly) > 0
  /\ Len(log) >= 3
  /\ log[1].n = 5 /\ log[1].lp = 2 /\ log[1].rp = 3
  /\ 5 * log[1].target[1] = 2 * area(top.poly) * log[1].target[2]
  /\ log[3].n = 3 /\ log[3].lp = 2 /\ log[3].rp = 1
  /\ area(log[3].poly) > 0
  /\ 3 * log[3].target[1] = 2 * area(log[3].poly) * log[3].target[2]

\* the area of a polygon is at most max_acres acres, up to the search tolerance
WithinMaxAcres(p) ==
  area(p) * max_acres[2] * TolDen <= SqUnitsPerAcre * max_acres[1] * (TolDen + tol)

(***************************************************************************)
(* C29.  Max-area bound: when split_equal_area has finished a row and      *)
(* every split succeeded, every part emitted for the row has an area of at *)
(* most max_acres, up to the search tolerance; a polygon with an area      *)
(* between max_acres and twice max_acres is not emitted whole.             *)
(***************************************************************************)
C29_MaxAreaBound ==
  (RowFinished /\ FullSuccess) =>
    /\ \A i \in 1..Len(emitted) : ~emitted[i].null => WithinMaxAcres(emitted[i])
    /\ (~WithinMaxAcres(rows[rowIdx]) /\ NumParts(rows[rowIdx], max_acres) < 2) =>
         emitted # <<rows[rowIdx]>>

\* the row is the square, 16384 acres, with max_acres 12288: num_parts is
\* floor(1.33) = 1 and the square is emitted whole
C29_Witness ==
  /\ RowFinished /\ rows[rowIdx] = Square /\ max_acres = <<12288, 1>>
  /\ top.n = 1 /\ log = <<>>
  /\ emitted = <<Square>> /\ ~WithinMaxAcres(Square)
  /\ out[Len(out)].part = Square

(***************************************************************************)
(* C29 as amended.  split_equal_area asks for floor(area / max_acres)      *)
(* parts: when a row with at least one part is finished and every split    *)
(* succeeded, the parts emitted for it are that many, their areas add up   *)
(* to the polygon's, and their mean area is at least max_acres and less    *)
(* than twice max_acres, so some part is at least max_acres; a polygon     *)
(* with an area from max_acres up to twice max_acres is emitted whole.     *)
(***************************************************************************)
C29_MeanAreaBound ==
  (RowFinished /\ FullSuccess /\ top.n >= 1) =>
    LET shp == rows[rowIdx]
        unit == SqUnitsPerAcre * max_acres[1]
        total == SumSeqArea(emitted)
    IN /\ Len(emitted) = top.n
       /\ total = area(shp)
       /\ Len(emitted) * unit <= total * max_acres[2]
       /\ total * max_acres[2] < 2 * Len(emitted) * unit
       /\ \E i \in 1..Len(emitted) : unit <= area(emitted[i]) * max_acres[2]
       /\ (area(shp) * max_acres[2] < 2 * unit) => emitted = <<shp>>

\* the 640 x 256 rectangle, 40960 acres, with max_acres 12288: three parts,
\* each of them larger than max_acres
C29_MeanWitness ==
  /\ RowFinished /\ FullSuccess /\ rows[rowIdx] = Ten /\ max_acres = <<12288, 1>>
  /\ top.n = 3 /\ Len(emitted) = 3
  /\ \A i \in 1..3 : ~WithinMaxAcres(emitted[i])
  /\ SumSeqArea(emitted) = area(Ten)

\* the area of the running call's polygon left of (below) the coordinate d
LeftAreaAt(d) ==
  SumArea(Intersection(cur.poly, left_splitter(extent(cur.poly), is_horiz, d)))

\* the target area lies between the left areas at the two bounds
Bracketed ==
  /\ LeftAreaAt(dMin) * target[2] <= target[1]
  /\ target[1] <= LeftAreaAt(dMax) * target[2]

\* the left area does not fall as the coordinate grows
LeftAreaMonotone ==
  \A d \in AxisMin..AxisMax : d < AxisMax => LeftAreaAt(d) <= LeftAreaAt(d + 1)

(***************************************************************************)
(* C30.  Bracketing invariant: at the start of every iteration of the      *)
(* search of split_poly, on a polygon whose left area does not fall as the *)
(* coordinate grows, the left area at the lower bound is at most the       *)
(* target and the left area at the upper bound is at least the target.     *)
(***************************************************************************)
C30_Bracketing ==
  (pc = "search" /\ dMin < dMax /\ LeftAreaMonotone) => Bracketed

\* split_poly on the 3 x 1 rectangle with target area -1: the search starts,
\* and the left area at the lower bound (0) is above the target
C30_Witness ==
  /\ mode = "bisect" /\ top.poly = Tiny3 /\ target = <<0 - 1, 1>>
  /\ pc = "search" /\ iters = 0 /\ dMin = 0 /\ dMax = 3
  /\ LeftAreaMonotone /\ LeftAreaAt(dMin) = 0 /\ ~Bracketed

\* for a target that is not negative the bracket holds at the start of every
\* iteration
C30_BracketingNonNegative ==
  (pc = "search" /\ dMin < dMax /\ target[1] >= 0) => Bracketed

====
